---------------------------- MODULE Spec2Model ----------------------------
(***************************************************************************)
(* A model of samples/data_processor.cpp: the class DataProcessor (a       *)
(* std::vector<int> with addData, sortData, printData and getSum) and the  *)
(* driver main().                                                          *)
(*                                                                         *)
(* Two callers of the class are modelled.  pc = "client" is an arbitrary   *)
(* caller that invokes the four public methods in any order with any       *)
(* argument of Values; it is the caller the properties "for every append   *)
(* history" quantify over.  Every other value of pc is a line of main(),   *)
(* which runs its statements in program order.                             *)
(*                                                                         *)
(* An int is a 32-bit two's complement integer, which is also the range of *)
(* the integers TLC evaluates, so every operator below is written so that  *)
(* no intermediate result leaves that range.  Signed overflow in           *)
(* "sum += value" is undefined in C++; the translation of that statement   *)
(* by the compilers this file is built with is one two's complement add    *)
(* instruction, and AddInt models that outcome (wrap-around modulo 2^32).  *)
(*                                                                         *)
(* Text is a sequence of one-character strings.                            *)
(***************************************************************************)
EXTENDS Integers, Sequences, FiniteSets

VARIABLES
    pc,       \* "client", or the line of main() that runs next, or "done"
    data,     \* DataProcessor::data
    stdout,   \* every character written to std::cout so far
    exit,     \* <<>> while running, <<status>> once main has returned
    calls     \* history variable: the method calls made so far, with results

vars == <<pc, data, stdout, exit, calls>>

---------------------------------------------------------------------------
(* Bounds and input sets.                                                  *)

\* The arbitrary caller makes at most MaxCalls calls.
MaxCalls == 5

\* The largest and the smallest int.
INT_MAX == 2147483647
INT_MIN == -2147483647 - 1

\* The arguments the arbitrary caller passes to addData.
Values == {INT_MIN, -1, 1, 2, INT_MAX}

---------------------------------------------------------------------------
(* int arithmetic (line 28) and operator<<(int) (lines 20 and 50).         *)

\* Mutant of AddInt: the sum clamped to INT_MIN..INT_MAX.
AddInt_Saturating(a, b) ==
    IF a > 0 /\ b > 0 /\ a > INT_MAX - b THEN INT_MAX
    ELSE IF a < 0 /\ b < 0 /\ a < INT_MIN - b THEN INT_MIN
    ELSE a + b

\* a + b in int: the sum reduced modulo 2^32 into INT_MIN..INT_MAX.
AddInt(a, b) ==
    IF a > 0 /\ b > 0 /\ a > INT_MAX - b
      THEN (a - INT_MAX - 1) + (b - INT_MAX - 1)
    ELSE IF a < 0 /\ b < 0 /\ a < INT_MIN - b
      THEN (a - INT_MIN) + (b - INT_MIN)
    ELSE a + b

DigitChar(d) == <<"0", "1", "2", "3", "4", "5", "6", "7", "8", "9">>[d + 1]

\* The decimal digits of -m for m <= 0, most significant first; <<>> for 0.
RECURSIVE DigitsOfNeg(_)
DigitsOfNeg(m) ==
    IF m = 0 THEN <<>>
    ELSE LET d == (10 - (m % 10)) % 10
         IN  Append(DigitsOfNeg((m + d) \div 10), DigitChar(d))

\* Mutant of Decimal: the digits least significant first.
Decimal_Reversed(n) ==
    LET ds == IF n = 0 THEN <<"0">> ELSE DigitsOfNeg(IF n < 0 THEN n ELSE -n)
        rev == [i \in 1..Len(ds) |-> ds[Len(ds) + 1 - i]]
    IN  IF n < 0 THEN <<"-">> \o rev ELSE rev

\* std::cout << n for an int n: its decimal form, "-" first when negative.
Decimal(n) ==
    IF n = 0 THEN <<"0">>
    ELSE IF n < 0 THEN <<"-">> \o DigitsOfNeg(n)
    ELSE DigitsOfNeg(-n)

\* std::endl.
Endl == <<"\n">>

---------------------------------------------------------------------------
(* The methods of DataProcessor, as functions of the vector.               *)

\* Mutants of addData: the value put first; a value already stored dropped.
addData_PushFront(d, value) == <<value>> \o d

addData_NoDuplicates(d, value) ==
    IF \E i \in 1..Len(d) : d[i] = value THEN d ELSE Append(d, value)

\* data.push_back(value)
addData(d, value) == Append(d, value)

\* Mutant of InsertAscending: x compared with the first element only.
InsertAscending_HeadOnly(s, x) ==
    IF s = <<>> THEN <<x>>
    ELSE IF x < Head(s) THEN <<x>> \o s
    ELSE Append(s, x)

\* s with x put before its first element greater than x (s is ascending).
RECURSIVE InsertAscending(_, _)
InsertAscending(s, x) ==
    IF s = <<>> THEN <<x>>
    ELSE IF x < Head(s) THEN <<x>> \o s
    ELSE <<Head(s)>> \o InsertAscending(Tail(s), x)

\* Mutant of std_sort: one pass exchanging neighbours out of order.
RECURSIVE std_sort_OnePass(_)
std_sort_OnePass(s) ==
    IF Len(s) <= 1 THEN s
    ELSE IF s[2] < s[1] THEN <<s[2]>> \o std_sort_OnePass(<<s[1]>> \o SubSeq(s, 3, Len(s)))
    ELSE <<s[1]>> \o std_sort_OnePass(Tail(s))

\* std::sort(first, last) with operator<: the elements in ascending order.
RECURSIVE std_sort(_)
std_sort(s) ==
    IF s = <<>> THEN <<>>
    ELSE InsertAscending(std_sort(SubSeq(s, 1, Len(s) - 1)), s[Len(s)])

\* Mutants of sortData: descending order; equal elements kept once.
RECURSIVE Reversed(_)
Reversed(s) == IF s = <<>> THEN <<>> ELSE Append(Reversed(Tail(s)), Head(s))

sortData_Descending(d) == Reversed(std_sort(d))

RECURSIVE WithoutRepeats(_)
WithoutRepeats(s) ==
    IF Len(s) <= 1 THEN s
    ELSE IF s[1] = s[2] THEN WithoutRepeats(Tail(s))
    ELSE <<s[1]>> \o WithoutRepeats(Tail(s))

sortData_Unique(d) == WithoutRepeats(std_sort(d))

sortData(d) == std_sort(d)

\* The loop of printData from element i on, then std::endl.
RECURSIVE PrintFrom(_, _)
PrintFrom(d, i) ==
    IF i > Len(d) THEN Endl
    ELSE Decimal(d[i]) \o <<" ">> \o PrintFrom(d, i + 1)

\* Mutant of printData: a space between elements only.
RECURSIVE PrintSeparated(_, _)
PrintSeparated(d, i) ==
    IF i > Len(d) THEN Endl
    ELSE Decimal(d[i]) \o (IF i < Len(d) THEN <<" ">> ELSE <<>>) \o PrintSeparated(d, i + 1)

printData_NoTrailingSpace(d) == PrintSeparated(d, 1)

\* What printData writes to std::cout.
printData(d) == PrintFrom(d, 1)

\* The loop of getSum from element i on, with the accumulator at sum.
RECURSIVE SumFrom(_, _, _)
SumFrom(d, i, sum) ==
    IF i > Len(d) THEN sum
    ELSE SumFrom(d, i + 1, AddInt(sum, d[i]))

\* Mutant of getSum: the first element left out.
getSum_SkipFirst(d) == SumFrom(d, 2, 0)

\* What getSum returns.
getSum(d) == SumFrom(d, 1, 0)

---------------------------------------------------------------------------
(* Calls.                                                                  *)

\* A record of one call: the method, its arguments, what it wrote to
\* std::cout and what it returned (<<>> for void).
CallRec(op, arg, out, ret) == [op |-> op, arg |-> arg, out |-> out, ret |-> ret]

CallAddData(value) ==
    /\ data' = addData(data, value)
    /\ calls' = Append(calls, CallRec("addData", <<value>>, <<>>, <<>>))
    /\ UNCHANGED stdout

CallSortData ==
    /\ data' = sortData(data)
    /\ calls' = Append(calls, CallRec("sortData", <<>>, <<>>, <<>>))
    /\ UNCHANGED stdout

CallPrintData ==
    /\ stdout' = stdout \o printData(data)
    /\ calls' = Append(calls, CallRec("printData", <<>>, printData(data), <<>>))
    /\ UNCHANGED data

\* A call of getSum whose result the caller writes after `before`, then
\* `after`, to std::cout (both empty when the caller prints nothing).
CallGetSum(before, after) ==
    /\ calls' = Append(calls, CallRec("getSum", <<>>, <<>>, <<getSum(data)>>))
    /\ stdout' = IF before = <<>> /\ after = <<>> THEN stdout
                 ELSE stdout \o before \o Decimal(getSum(data)) \o after
    /\ UNCHANGED data

---------------------------------------------------------------------------
(* The arbitrary caller.                                                   *)

ClientReady == pc = "client" /\ Len(calls) < MaxCalls

ClientAddData ==
    \E value \in Values :
        ClientReady /\ CallAddData(value) /\ UNCHANGED <<pc, exit>>

ClientSortData == ClientReady /\ CallSortData /\ UNCHANGED <<pc, exit>>

ClientPrintData == ClientReady /\ CallPrintData /\ UNCHANGED <<pc, exit>>

ClientGetSum == ClientReady /\ CallGetSum(<<>>, <<>>) /\ UNCHANGED <<pc, exit>>

---------------------------------------------------------------------------
(* main(), one action per statement.                                       *)

OriginalLabel ==
    <<"O", "r", "i", "g", "i", "n", "a", "l", " ", "d", "a", "t", "a", ":", " ">>
SortedLabel ==
    <<"S", "o", "r", "t", "e", "d", " ", "d", "a", "t", "a", ":", " ">>
SumLabel == <<"S", "u", "m", ":", " ">>

Main38 == pc = "L38" /\ CallAddData(5) /\ pc' = "L39" /\ UNCHANGED exit
Main39 == pc = "L39" /\ CallAddData(2) /\ pc' = "L40" /\ UNCHANGED exit
Main40 == pc = "L40" /\ CallAddData(8) /\ pc' = "L41" /\ UNCHANGED exit
Main41 == pc = "L41" /\ CallAddData(1) /\ pc' = "L43" /\ UNCHANGED exit

Main43 ==
    /\ pc = "L43"
    /\ stdout' = stdout \o OriginalLabel
    /\ pc' = "L44"
    /\ UNCHANGED <<data, exit, calls>>

Main44 == pc = "L44" /\ CallPrintData /\ pc' = "L46" /\ UNCHANGED exit

Main46 == pc = "L46" /\ CallSortData /\ pc' = "L47" /\ UNCHANGED exit

Main47 ==
    /\ pc = "L47"
    /\ stdout' = stdout \o SortedLabel
    /\ pc' = "L48"
    /\ UNCHANGED <<data, exit, calls>>

Main48 == pc = "L48" /\ CallPrintData /\ pc' = "L50" /\ UNCHANGED exit

Main50 == pc = "L50" /\ CallGetSum(SumLabel, Endl) /\ pc' = "L52" /\ UNCHANGED exit

Main52 ==
    /\ pc = "L52"
    /\ exit' = <<0>>
    /\ pc' = "done"
    /\ UNCHANGED <<data, stdout, calls>>

---------------------------------------------------------------------------
(* The specification.                                                      *)

\* A DataProcessor has just been constructed (data is empty), nothing has
\* been written, and the caller is main() or the arbitrary caller.
Init ==
    /\ pc \in {"L38", "client"}
    /\ data = <<>>
    /\ stdout = <<>>
    /\ exit = <<>>
    /\ calls = <<>>

Next ==
    \/ ClientAddData
    \/ ClientSortData
    \/ ClientPrintData
    \/ ClientGetSum
    \/ Main38
    \/ Main39
    \/ Main40
    \/ Main41
    \/ Main43
    \/ Main44
    \/ Main46
    \/ Main47
    \/ Main48
    \/ Main50
    \/ Main52

Spec == Init /\ [][Next]_vars

---------------------------------------------------------------------------
(* Vocabulary of the properties.                                           *)

LastCall == calls[Len(calls)]

LastIs(op) == calls # <<>> /\ LastCall.op = op

\* The values appended so far, in the order they were appended.
RECURSIVE ArgsOf(_)
ArgsOf(cs) ==
    IF cs = <<>> THEN <<>>
    ELSE IF Head(cs).op = "addData" THEN <<Head(cs).arg[1]>> \o ArgsOf(Tail(cs))
    ELSE ArgsOf(Tail(cs))

History == ArgsOf(calls)

NoSortSoFar == \A i \in 1..Len(calls) : calls[i].op # "sortData"

\* sortData has been called and addData has not been called since.
SortedSinceLastAdd ==
    \E i \in 1..Len(calls) :
        /\ calls[i].op = "sortData"
        /\ \A j \in (i + 1)..Len(calls) : calls[j].op # "addData"

\* The step is a call of op.
Step(op) == Len(calls') = Len(calls) + 1 /\ calls'[Len(calls')].op = op

Ascending(s) == \A i \in 1..(Len(s) - 1) : s[i] <= s[i + 1]

Count(s, v) == Cardinality({i \in 1..Len(s) : s[i] = v})

SameMultiset(s, t) ==
    /\ Len(s) = Len(t)
    /\ \A i \in 1..Len(s) : Count(s, s[i]) = Count(t, s[i])

IsDigit(c) == c \in {"0", "1", "2", "3", "4", "5", "6", "7", "8", "9"}

DigitVal(c) ==
    CASE c = "0" -> 0 [] c = "1" -> 1 [] c = "2" -> 2 [] c = "3" -> 3
      [] c = "4" -> 4 [] c = "5" -> 5 [] c = "6" -> 6 [] c = "7" -> 7
      [] c = "8" -> 8 [] c = "9" -> 9

\* Minus the number the digits ds denote, after the digits read into acc.
RECURSIVE ReadNeg(_, _)
ReadNeg(ds, acc) ==
    IF ds = <<>> THEN acc ELSE ReadNeg(Tail(ds), acc * 10 - DigitVal(Head(ds)))

\* A token is a decimal numeral: digits, no leading zero, "-" before a
\* nonzero negative number.
IsNumeral(tok) ==
    LET ds == IF tok # <<>> /\ Head(tok) = "-" THEN Tail(tok) ELSE tok
    IN  /\ ds # <<>>
        /\ \A i \in 1..Len(ds) : IsDigit(ds[i])
        /\ Head(ds) = "0" => tok = <<"0">>

NumeralValue(tok) ==
    IF Head(tok) = "-" THEN ReadNeg(Tail(tok), 0) ELSE 0 - ReadNeg(tok, 0)

\* Reads a listing: numerals, each followed by one space, then one line
\* break and nothing after it.  tok is the numeral being read and vals the
\* values read so far.
RECURSIVE ReadFrom(_, _, _, _)
ReadFrom(text, i, tok, vals) ==
    IF i > Len(text) THEN [ok |-> FALSE, vals |-> vals]
    ELSE IF text[i] = "\n"
      THEN [ok |-> i = Len(text) /\ tok = <<>>, vals |-> vals]
    ELSE IF text[i] = " "
      THEN IF IsNumeral(tok)
             THEN ReadFrom(text, i + 1, <<>>, Append(vals, NumeralValue(tok)))
             ELSE [ok |-> FALSE, vals |-> vals]
    ELSE ReadFrom(text, i + 1, Append(tok, text[i]), vals)

ReadListing(text) == ReadFrom(text, 1, <<>>, <<>>)

Listed(vals) == [ok |-> TRUE, vals |-> vals]

\* The arithmetic (unbounded) sum of s as <<h, l>>, standing for
\* h * 2^16 + l with 0 <= l < 2^16; it is computed in halves so that no
\* intermediate result is large.
RECURSIVE SumOf(_)
SumOf(s) == IF s = <<>> THEN 0 ELSE Head(s) + SumOf(Tail(s))

ArithSum(s) ==
    LET hs == [i \in 1..Len(s) |-> s[i] \div 2^16]
        ls == [i \in 1..Len(s) |-> s[i] % 2^16]
    IN  <<SumOf(hs) + (SumOf(ls) \div 2^16), SumOf(ls) % 2^16>>

\* The int n in the same form.
Halves(n) == <<n \div 2^16, n % 2^16>>

\* Whether a sum lies in INT_MIN..INT_MAX.
Representable(hl) == -(2^15) <= hl[1] /\ hl[1] < 2^15

\* A sum reduced modulo 2^32 into INT_MIN..INT_MAX.
Mod2w(hl) == <<((hl[1] + 2^15) % 2^16) - 2^15, hl[2]>>

\* Every partial sum of s, taken from the first element on, is an int.
PartialSumsRepresentable(s) ==
    \A k \in 1..Len(s) : Representable(ArithSum(SubSeq(s, 1, k)))

---------------------------------------------------------------------------
(* Properties.                                                             *)

\* The text a listing of vals has: each value in decimal, one space after
\* each, then a line break.
RECURSIVE ListingOf(_)
ListingOf(vals) ==
    IF vals = <<>> THEN <<"\n">>
    ELSE Decimal(Head(vals)) \o <<" ">> \o ListingOf(Tail(vals))

\* C1: when sortData has not been called, what a call of printData writes
\* is the appended values in the order they were appended, each in decimal
\* and followed by one space, then one line break; with nothing appended it
\* is the line break alone.
C1_PrintListsAppendOrder ==
    LastIs("printData") /\ NoSortSoFar =>
        /\ LastCall.out = ListingOf(History)
        /\ ReadListing(LastCall.out) = Listed(History)
        /\ History = <<>> => LastCall.out = <<"\n">>

\* C1 witness: printData has listed nothing appended, and has later listed
\* at least two values appended out of ascending order, one of them negative.
C1_Witness ==
    /\ LastIs("printData") /\ NoSortSoFar
    /\ Len(History) >= 2 /\ History[1] > History[2] /\ History[2] < 0
    /\ \E i \in 1..Len(calls) : calls[i].op = "printData" /\ calls[i].out = <<"\n">>

\* C2: after sortData, until addData is called, the elements are in
\* ascending order in the vector and in what printData lists; and sortData
\* leaves a vector of at most one element as it is.
C2_SortedAfterSort ==
    /\ [](SortedSinceLastAdd =>
            /\ Ascending(data)
            /\ LastIs("printData") =>
                 /\ ReadListing(LastCall.out).ok
                 /\ ReadListing(LastCall.out).vals = data
                 /\ Ascending(ReadListing(LastCall.out).vals))
    /\ [][Step("sortData") /\ Len(data) <= 1 => data' = data]_vars

\* C2 witness: values appended out of order have been sorted and then
\* listed.
C2_Witness ==
    /\ SortedSinceLastAdd /\ LastIs("printData")
    /\ Len(History) >= 3 /\ ~Ascending(History)
    /\ \E i \in 1..(Len(data) - 1) : data[i] < data[i + 1]

\* C3 as stated: getSum returns the arithmetic sum of the values appended
\* so far, whatever they are.
C3_Original ==
    LastIs("getSum") => Halves(LastCall.ret[1]) = ArithSum(History)

\* C3 as amended: getSum returns the arithmetic sum of the values appended
\* so far when every partial sum of the stored elements, taken in their
\* stored order, is an int; it returns 0 when nothing has been appended.
C3_SumWhenNoOverflow ==
    LastIs("getSum") =>
        /\ PartialSumsRepresentable(data) =>
               Halves(LastCall.ret[1]) = ArithSum(History)
        /\ History = <<>> => LastCall.ret = <<0>>

\* C3 witness: getSum has returned the sum of at least three values, the
\* largest int among them, with no partial sum out of range.
C3_Witness ==
    /\ LastIs("getSum")
    /\ Len(History) >= 3 /\ PartialSumsRepresentable(data)
    /\ \E i \in 1..Len(data) : data[i] = INT_MAX
    /\ LastCall.ret[1] # 0

\* C4: what getSum returns is the same before and after a call of
\* sortData.
C4_SumInvariantUnderSort ==
    [][Step("sortData") => getSum(data') = getSum(data)]_vars

\* C4 witness: sortData has reordered a vector whose accumulation
\* overflowed in the order appended and does not in the sorted order.
C4_Witness ==
    /\ LastIs("sortData")
    /\ \A i \in 1..(Len(calls) - 1) : calls[i].op = "addData"
    /\ data # History
    /\ ~PartialSumsRepresentable(History)
    /\ PartialSumsRepresentable(data)

\* C5: a second call of sortData right after a first leaves the vector as
\* the first left it, and sorting what sortData has produced changes
\* nothing.
C5_SortIdempotent ==
    [][Step("sortData") =>
          /\ sortData(data') = data'
          /\ LastIs("sortData") => data' = data]_vars

\* C5 witness: sortData has been called twice in a row on values that were
\* appended out of order.
C5_Witness ==
    /\ Len(calls) >= 2
    /\ LastIs("sortData") /\ calls[Len(calls) - 1].op = "sortData"
    /\ Len(History) >= 3 /\ ~Ascending(History)

\* C6: the vector holds exactly the values appended so far, each as many
\* times as it was appended; its length is the number of addData calls.
C6_MultisetOfAppended ==
    /\ SameMultiset(data, History)
    /\ Len(data) = Cardinality({i \in 1..Len(calls) : calls[i].op = "addData"})

\* C6 witness: a value has been appended twice, and sortData, printData
\* and getSum have all been called.
C6_Witness ==
    /\ \E i, j \in 1..Len(History) : i # j /\ History[i] = History[j]
    /\ \A op \in {"sortData", "printData", "getSum"} :
           \E i \in 1..Len(calls) : calls[i].op = op

\* The three lines main writes.
OriginalLine ==
    <<"O", "r", "i", "g", "i", "n", "a", "l", " ", "d", "a", "t", "a", ":", " ",
      "5", " ", "2", " ", "8", " ", "1", " ", "\n">>
SortedLine ==
    <<"S", "o", "r", "t", "e", "d", " ", "d", "a", "t", "a", ":", " ",
      "1", " ", "2", " ", "5", " ", "8", " ", "\n">>
SumLine == <<"S", "u", "m", ":", " ", "1", "6", "\n">>

InMain == pc # "client"

\* C7: main appends 5, 2, 8, 1 in that order; it writes the unsorted
\* listing, then after sortData the sorted listing, then the sum 16; getSum
\* is 16 before and after sorting; main is never stuck before it returns,
\* and it returns 0.
C7_DriverRun ==
    InMain =>
        /\ pc \notin {"L38", "L39", "L40", "L41"} => History = <<5, 2, 8, 1>>
        /\ pc \in {"L43", "L44", "L46"} => data = <<5, 2, 8, 1>> /\ getSum(data) = 16
        /\ pc \in {"L47", "L48", "L50", "L52", "done"} =>
               data = <<1, 2, 5, 8>> /\ getSum(data) = 16
        /\ pc \in {"L38", "L39", "L40", "L41", "L43"} => stdout = <<>>
        /\ pc = "L46" => stdout = OriginalLine
        /\ pc = "L50" => stdout = OriginalLine \o SortedLine
        /\ pc \in {"L52", "done"} => stdout = OriginalLine \o SortedLine \o SumLine
        /\ pc \in {"L52", "done"} => LastCall.ret = <<16>>
        /\ pc = "done" <=> exit = <<0>>
        /\ pc # "done" => ENABLED Next

\* C7 witness: main has returned.
C7_Witness == pc = "done" /\ exit = <<0>> /\ Len(calls) = 8

\* s with its elements i and i + 1 exchanged.
SwapAdjacent(s, i) ==
    [k \in 1..Len(s) |-> IF k = i THEN s[i + 1] ELSE IF k = i + 1 THEN s[i] ELSE s[k]]

\* The vector after the values of h are appended in order.
RECURSIVE AppendAll(_, _)
AppendAll(d, h) == IF h = <<>> THEN d ELSE AppendAll(addData(d, Head(h)), Tail(h))

\* C8: what sortData leaves depends only on the multiset of values
\* appended: appending the same values with any two neighbours exchanged
\* (and so in any order) and sorting yields the same vector.
C8_SortDependsOnMultisetOnly ==
    LastIs("sortData") =>
        \A i \in 1..(Len(History) - 1) :
            sortData(AppendAll(<<>>, SwapAdjacent(History, i))) = data

\* C8 witness: sortData has been called on at least three values appended
\* out of order, two of them equal, after an earlier sortData and addData.
C8_Witness ==
    /\ LastIs("sortData")
    /\ Len(History) >= 3 /\ ~Ascending(History)
    /\ \E i, j \in 1..Len(History) : i # j /\ History[i] = History[j]
    /\ \E i \in 1..(Len(calls) - 2) :
           calls[i].op = "sortData" /\ calls[i + 1].op = "addData"

\* C9: getSum returns an int, the arithmetic sum of the values appended
\* reduced modulo 2^32; when the arithmetic sum is not an int, what getSum
\* returns differs from it.
C9_SumWrapsOnOverflow ==
    LastIs("getSum") =>
        /\ Len(LastCall.ret) = 1
        /\ LastCall.ret[1] \in INT_MIN..INT_MAX
        /\ Halves(LastCall.ret[1]) = Mod2w(ArithSum(History))
        /\ ~Representable(ArithSum(History)) =>
               Halves(LastCall.ret[1]) # ArithSum(History)

\* C9 witness: getSum has returned for values whose arithmetic sum is
\* larger than the largest int.
C9_Witness ==
    /\ LastIs("getSum")
    /\ ~Representable(ArithSum(History))
    /\ ArithSum(History)[1] > 0
    /\ Halves(LastCall.ret[1]) # ArithSum(History)

\* C10: printData and getSum leave the vector as it is; addData leaves
\* every element where it is and puts the new value after the last.
C10_Frame ==
    [][/\ Step("printData") \/ Step("getSum") => data' = data
       /\ Step("addData") =>
            /\ Len(data') = Len(data) + 1
            /\ SubSeq(data', 1, Len(data)) = data
            /\ data'[Len(data')] = calls'[Len(calls')].arg[1]]_vars

\* C10 witness: addData has been called on a vector of at least two
\* elements that are not in ascending order with the new one, after
\* printData and getSum.
C10_Witness ==
    /\ LastIs("addData")
    /\ Len(data) >= 3 /\ data[Len(data)] < data[1]
    /\ \A op \in {"printData", "getSum"} :
           \E i \in 1..Len(calls) : calls[i].op = op

=============================================================================
